---------------------------- MODULE Spec2Model ----------------------------
(***************************************************************************)
(* A model of the habit tracker (habit.js): the in-memory habit list and   *)
(* completion map, their persisted mirrors in chrome.storage.local, the    *)
(* confirmation modal, the import/export codec, the 14-day window          *)
(* navigator and the streak calculator.                                    *)
(*                                                                         *)
(* Encodings.  Time is counted in hours; a Date object is the absolute     *)
(* hour it denotes.  A date key 'YYYY-MM-DD' is the number of the local    *)
(* calendar day it names.  A JavaScript value is a record carrying its     *)
(* typeof/Array.isArray class in the field type.                           *)
(***************************************************************************)
EXTENDS Integers, Sequences, FiniteSets, TLC

VARIABLES
    habits,           \* let habits: the in-memory habit list (a JS array)
    completions,      \* let completions: habitId -> { date: state }
    storage,          \* chrome.storage.local: the two persisted blobs
    writes,           \* chrome.storage.local.set calls in flight, oldest first
    pc,               \* position of the DOMContentLoaded handler
    idClock,          \* how many ids generateId has handed out
    rows,             \* the .habit-row elements of #habitsList (data-habit-id)
    confirmCallback,  \* let confirmCallback: the pending destructive action
    fileRead,         \* the file.text() read importData is awaiting
    downloaded,       \* the backup file the last export wrote
    lastOp,           \* the event that was handled last, and its arguments
    now,              \* the clock: Date.now()
    dst,              \* the local time zone: the day whose length is not 24 h
    viewEndDate,      \* let viewEndDate
    streakShown,      \* the value calculateStreak returned to renderHabits
    fromAction,       \* window.location.search has the 'from' parameter
    useAsNewTab,      \* chrome.storage.local: the useAsNewTab key
    guardPc,          \* position of the newtab-guard.js function
    location,         \* window.location: the page the tab shows
    newTabBtn,        \* #newTabToggle has the class btn-active
    flagOps,          \* chrome.storage.local calls on useAsNewTab in flight, oldest first
    clicks,           \* clicks on #newTabToggle since the page was opened
    flagAtOpen        \* the useAsNewTab key as it was when the page was opened

vars == <<habits, completions, storage, writes, pc, idClock, rows,
          confirmCallback, fileRead, downloaded, lastOp,
          now, dst, viewEndDate, streakShown,
          fromAction, useAsNewTab, guardPc, location,
          newTabBtn, flagOps, clicks, flagAtOpen>>

storeVars == <<habits, completions, storage, writes, pc, idClock, rows,
               confirmCallback, fileRead, downloaded>>
clockVars == <<now, dst>>
guardVars == <<fromAction, useAsNewTab, guardPc, location>>
toggleVars == <<newTabBtn, flagOps, clicks, flagAtOpen>>

-----------------------------------------------------------------------------
(* Bounds of the model *)

MaxHabits == 1        \* in Spec the add form is submitted while fewer habits exist
MaxInFlight == 1      \* an operation is accepted while fewer writes are in flight
MaxPending == 2       \* in SpecRace a cell is clicked while fewer writes are in flight
MaxClicks == 2        \* #newTabToggle is clicked at most this often per page
MaxToggleDays == 2    \* SpecToggle clicks the cells of this many columns
MaxNavDay == 44       \* the clock stops advancing after this day
MaxStreakDay == 4     \* SpecStreak draws completion maps over days 1..this
MaxListLen == 3       \* habit lists have at most this length

(* Program constants *)

DAYS_TO_SHOW == 14
DayHours == 24        \* 86400000 ms
PageDays == 14        \* prevWeek / nextWeek step

-----------------------------------------------------------------------------
(* The local calendar.  Local day d starts at absolute hour DayStart(d);   *)
(* every day has 24 hours except day dst.day, which has 24 + dst.extra     *)
(* (a daylight-saving transition; dst.day = -1 when the zone has none).    *)

DayStart(d) == DayHours * d + (IF dst.day >= 0 /\ d > dst.day THEN dst.extra ELSE 0)

LocalDay(t) == CHOOSE d \in 0..(t \div DayHours + 1) : DayStart(d) <= t /\ t < DayStart(d + 1)

\* formatDate(date): the zero-padded local 'YYYY-MM-DD' key of a Date
formatDate(date) == LocalDay(date)

\* new Date('YYYY-MM-DD'): midnight UTC of that calendar day
ParseDateKey(key) == DayHours * key

\* Math.round(ms / 86400000)
RoundDays(diff) == (2 * diff + DayHours) \div (2 * DayHours)

\* date.setHours(0, 0, 0, 0)
Midnight(date) == DayStart(LocalDay(date))

\* date.setDate(date.getDate() + n): same local time of day, n days away
AddDays(date, n) ==
    LET d == LocalDay(date)
        tod == date - DayStart(d)
        len == DayStart(d + n + 1) - DayStart(d + n)
    IN DayStart(d + n) + (IF tod < len THEN tod ELSE len - 1)

-----------------------------------------------------------------------------
(* JavaScript values *)

EmptyProps == [k \in {} |-> k]

\* an object-like value: typeof/Array.isArray class, array elements, named properties
Value(type, items, props) == [type |-> type, items |-> items, props |-> props]
Undefined == Value("undefined", <<>>, EmptyProps)
Null == Value("null", <<>>, EmptyProps)
StringValue == Value("string", <<>>, EmptyProps)     \* a non-empty string
Object(props) == Value("object", <<>>, props)        \* { ... }
Array(items) == Value("array", items, EmptyProps)    \* [ ... ]

\* ToBoolean(v), for the values above
Truthy(v) == v.type \in {"object", "array", "string"}

\* typeof v === 'object'
TypeofObject(v) == v.type \in {"object", "array", "null"}

\* Array.isArray(v)
IsArray(v) == v.type = "array"

\* Object.keys(v): the named properties (array elements are not modelled as keys)
Keys(v) == DOMAIN v.props

\* v[key]
Get(v, key) == IF key \in DOMAIN v.props THEN v.props[key] ELSE Undefined

\* v[key] = x: sloppy-mode assignment, silently ignored on a primitive
Put(v, key, x) ==
    IF v.type \in {"object", "array"}
    THEN [v EXCEPT !.props = [k \in DOMAIN v.props \cup {key} |-> IF k = key THEN x ELSE v.props[k]]]
    ELSE v

\* delete v[key]
Delete(v, key) ==
    IF v.type \in {"object", "array"}
    THEN [v EXCEPT !.props = [k \in DOMAIN v.props \ {key} |-> v.props[k]]]
    ELSE v

\* a cell of a habit's date map: its state string, NoState when the key is absent
NoState == "undefined"
Cell(entry, dateStr) == IF dateStr \in DOMAIN entry.props THEN entry.props[dateStr] ELSE NoState

\* scalar fields of a habit: a string (ids as text, names as characters), a number,
\* or a missing field
Str(text) == [type |-> "string", text |-> text]
NumberSeven == [type |-> "number", text |-> "7"]
MissingId == [type |-> "undefined", text |-> ""]
MissingName == [type |-> "undefined", text |-> <<>>]
Num(n) == [type |-> "number", num |-> n]

\* !habit.id and !habit.name
FalsyId(id) == id.type = "undefined" \/ (id.type = "string" /\ id.text = "")
FalsyName(name) == name.type = "undefined" \/ (name.type = "string" /\ name.text = <<>>)

Habit(id, name, order, createdAt) ==
    [id |-> id, name |-> name, order |-> order, createdAt |-> createdAt]

\* h.order || 0
OrderOf(h) == IF h.order.type = "number" THEN h.order.num ELSE 0

\* faulty variant: the input is taken as typed
TrimNothing(s) == s

\* String.prototype.trim
RECURSIVE TrimStart(_)
TrimStart(s) == IF Len(s) > 0 /\ Head(s) = " " THEN TrimStart(Tail(s)) ELSE s
RECURSIVE TrimEnd(_)
TrimEnd(s) == IF Len(s) > 0 /\ s[Len(s)] = " " THEN TrimEnd(SubSeq(s, 1, Len(s) - 1)) ELSE s
Trim(s) == TrimEnd(TrimStart(s))

Range(seq) == {seq[i] : i \in 1..Len(seq)}

-----------------------------------------------------------------------------
(* Serialisation.  JSON.stringify and chrome.storage.local.set both keep   *)
(* an array's elements and drop its named properties; an object keeps its  *)
(* properties.  A backup file is the JSON text; a text that is not JSON    *)
(* has kind "garbage".                                                     *)

EntryToJSON(entry) == IF entry.type = "array" THEN Array(entry.items) ELSE entry

CompletionsToJSON(c) ==
    CASE c.type = "object" -> Object([k \in DOMAIN c.props |-> EntryToJSON(c.props[k])])
      [] c.type = "array" -> Array(c.items)
      [] OTHER -> c

\* faulty variant: the completion map is written as an array, its entries lost
JSONstringifyFlat(data) ==
    [kind |-> "json", version |-> data.version, exportedAt |-> data.exportedAt,
     habits |-> Array(data.habits), completions |-> Array(<<>>)]

\* JSON.stringify(data, null, 2)
JSONstringify(data) ==
    [kind |-> "json", version |-> data.version, exportedAt |-> data.exportedAt,
     habits |-> Array(data.habits), completions |-> CompletionsToJSON(data.completions)]

\* JSON.parse(text), for a text that is JSON
JSONparse(text) ==
    [version |-> text.version, exportedAt |-> text.exportedAt,
     habits |-> text.habits, completions |-> text.completions]

NoFile == [kind |-> "none", version |-> 0, exportedAt |-> 0,
           habits |-> Undefined, completions |-> Undefined]
GarbageFile == [NoFile EXCEPT !.kind = "garbage"]
JSONFile(h, c) == [kind |-> "json", version |-> 1, exportedAt |-> 0, habits |-> h, completions |-> c]

\* the pending destructive action: the closure showConfirm was given
NoData == [version |-> 0, exportedAt |-> 0, habits |-> Undefined, completions |-> Undefined]
NoCallback == [kind |-> "none", habitId |-> "", data |-> NoData]
DeleteCallback(habitId) == [kind |-> "delete", habitId |-> habitId, data |-> NoData]
ImportCallback(data) == [kind |-> "import", habitId |-> "", data |-> data]

\* the event a handler ran for: its name and what it was dispatched with
Event(op) ==
    [op |-> op, habitId |-> "", dateStr |-> 0, value |-> <<>>, file |-> NoFile,
     callback |-> NoCallback]

-----------------------------------------------------------------------------
(* Rendering *)

\* getDisplayDates(): the DAYS_TO_SHOW local midnights ending at viewEndDate
getDisplayDates ==
    [k \in 1..DAYS_TO_SHOW |-> Midnight(AddDays(viewEndDate, k - DAYS_TO_SHOW))]

\* [...habits].sort((a, b) => (a.order || 0) - (b.order || 0)): a stable sort
RECURSIVE InsertByOrder(_, _)
InsertByOrder(sorted, h) ==
    IF Len(sorted) = 0 THEN <<h>>
    ELSE IF OrderOf(sorted[Len(sorted)]) <= OrderOf(h) THEN Append(sorted, h)
    ELSE Append(InsertByOrder(SubSeq(sorted, 1, Len(sorted) - 1), h), sorted[Len(sorted)])
RECURSIVE sortedHabits(_)
sortedHabits(hs) ==
    IF Len(hs) = 0 THEN <<>>
    ELSE InsertByOrder(sortedHabits(SubSeq(hs, 1, Len(hs) - 1)), hs[Len(hs)])

\* renderHabits(): one .habit-row per habit, in sorted order, carrying data-habit-id
renderHabits(hs) == [i \in 1..Len(hs) |-> sortedHabits(hs)[i].id.text]

\* the data-date values of the most recent columns, and of the last column
ToggleDates ==
    {formatDate(getDisplayDates[k]) : k \in (DAYS_TO_SHOW - MaxToggleDays + 1)..DAYS_TO_SHOW}
LastColumn == formatDate(getDisplayDates[DAYS_TO_SHOW])

-----------------------------------------------------------------------------
(* Data persistence *)

Write(key, value, awaiter) == [key |-> key, value |-> value, awaiter |-> awaiter]

\* saveHabits(): chrome.storage.local.set({ habits }), awaited by `awaiter`
saveHabits(w, hs, awaiter) == Append(w, Write("habits", Array(hs), awaiter))

\* saveCompletions(): chrome.storage.local.set({ completions })
saveCompletions(w, c, awaiter) == Append(w, Write("completions", CompletionsToJSON(c), awaiter))

\* the migration loop of loadData: array entries become { date: 'done' }
MigrateEntry(entry) ==
    IF IsArray(entry) THEN Object([date \in Range(entry.items) |-> "done"]) ELSE entry
Migrate(c) == [c EXCEPT !.props = [habitId \in Keys(c) |-> MigrateEntry(c.props[habitId])]]
\* faulty variant: every load is taken for a migration
needsMigrationAlways(c) == TRUE

needsMigration(c) == \E habitId \in Keys(c) : IsArray(c.props[habitId])

\* a chrome.storage.local.get('useAsNewTab', callback) call, issued by setupNewTabToggle
\* itself ("setup") or by its click listener ("click")
FlagGet(from) == [kind |-> "get", from |-> from, value |-> "undefined", notify |-> TRUE]

\* a chrome.storage.local.set({ useAsNewTab: value }, callback) call
FlagSet(value) == [kind |-> "set", from |-> "click", value |-> value, notify |-> TRUE]

\* setupNewTabToggle(): the get that loads the current state of the button
setupNewTabToggle(ops) == Append(ops, FlagGet("setup"))

\* the DOMContentLoaded handler calls setupNewTabToggle once loadData has returned
ToggleSetup ==
    /\ flagOps' = IF pc # "ready" /\ pc' = "ready" THEN setupNewTabToggle(flagOps) ELSE flagOps
    /\ UNCHANGED <<newTabBtn, clicks, flagAtOpen>>

\* the calls in flight when their page goes away: the callbacks are gone, and the
\* sets still reach the store
RECURSIVE Orphaned(_)
Orphaned(ops) ==
    IF ops = <<>> THEN <<>>
    ELSE IF Head(ops).kind = "set"
         THEN <<[Head(ops) EXCEPT !.notify = FALSE]>> \o Orphaned(Tail(ops))
         ELSE Orphaned(Tail(ops))

\* the button as the page's HTML has it, and no call on useAsNewTab in flight
ToggleIdle ==
    /\ newTabBtn = FALSE
    /\ flagOps = <<>>
    /\ clicks = 0
    /\ flagAtOpen = useAsNewTab

\* result.habits || [] and result.completions || {}
LoadedHabits == IF Truthy(storage.habits) THEN storage.habits.items ELSE <<>>
LoadedCompletions == IF Truthy(storage.completions) THEN storage.completions ELSE Object(EmptyProps)

\* loadData(), from the moment chrome.storage.local.get resolves, and the rest of
\* the DOMContentLoaded handler when no migration write has to be awaited
LoadData ==
    /\ pc = "loading"
    /\ habits' = LoadedHabits
    /\ completions' = Migrate(LoadedCompletions)
    /\ IF needsMigration(LoadedCompletions)
       THEN /\ Len(writes) < MaxInFlight
            /\ writes' = saveCompletions(writes, Migrate(LoadedCompletions), "load")
            /\ pc' = "migrating"
            /\ rows' = rows
       ELSE /\ writes' = writes
            /\ pc' = "ready"
            /\ rows' = renderHabits(LoadedHabits)
    /\ lastOp' = Event("load")
    /\ UNCHANGED guardVars
    /\ ToggleSetup
    /\ UNCHANGED <<storage, idClock, confirmCallback, fileRead, downloaded,
                   now, dst, viewEndDate, streakShown>>

-----------------------------------------------------------------------------
(* Habit management *)

IdPool == <<"h1", "h2", "h3", "h4", "h5", "h6">>

\* faulty variant: the same id every time
generateIdRepeats == IdPool[1]

\* generateId(): Date.now() and Math.random() in base 36, a string not handed out before
generateId == IdPool[idClock + 1]

\* faulty variant: the length of the list is taken for the largest order
maxOrderIsLength(hs) == Len(hs)

\* habits.reduce((max, h) => Math.max(max, h.order || 0), 0)
RECURSIVE maxOrder(_)
maxOrder(hs) ==
    IF Len(hs) = 0 THEN 0
    ELSE LET m == maxOrder(SubSeq(hs, 1, Len(hs) - 1))
             o == OrderOf(hs[Len(hs)])
         IN IF o > m THEN o ELSE m

\* faulty variant: every new habit gets order 0
NewHabitOrderZero(name) == Habit(Str(generateId), Str(Trim(name)), Num(0), now)

\* the habit object addHabit(name) builds
NewHabit(name) == Habit(Str(generateId), Str(Trim(name)), Num(maxOrder(habits) + 1), now)

\* habits.find(h => h.id === habitId)
FindHabit(hs, habitId) ==
    LET found == {i \in 1..Len(hs) : hs[i].id = Str(habitId)}
    IN IF found = {} THEN 0 ELSE CHOOSE i \in found : \A j \in found : i <= j

\* faulty variants of the toggle: a two-state toggle that clears a done cell, and a
\* toggle that marks a cleared cell instead of deleting its key
ToggledEntryTwoState(entry, dateStr) ==
    IF Cell(entry, dateStr) = NoState THEN Put(entry, dateStr, "done")
    ELSE Delete(entry, dateStr)
ToggledEntryKeepsKey(entry, dateStr) ==
    LET currentState == Cell(entry, dateStr)
    IN IF currentState = NoState THEN Put(entry, dateStr, "done")
       ELSE IF currentState = "done" THEN Put(entry, dateStr, "skipped")
       ELSE Put(entry, dateStr, "untracked")

\* toggleCompletion(habitId, dateStr): empty -> done -> skipped -> empty
ToggledEntry(entry, dateStr) ==
    LET currentState == Cell(entry, dateStr)
    IN IF currentState = NoState THEN Put(entry, dateStr, "done")
       ELSE IF currentState = "done" THEN Put(entry, dateStr, "skipped")
       ELSE Delete(entry, dateStr)
toggleCompletion(c, habitId, dateStr) ==
    LET c1 == IF ~Truthy(Get(c, habitId)) THEN Put(c, habitId, Object(EmptyProps)) ELSE c
    IN Put(c1, habitId, ToggledEntry(Get(c1, habitId), dateStr))

\* getHabitState(habitId, dateStr): completions[habitId]?.[dateStr] || null
StateIn(c, habitId, dateStr) ==
    LET entry == Get(c, habitId)
    IN IF entry.type \in {"undefined", "null"} \/ Cell(entry, dateStr) = NoState
       THEN "null" ELSE Cell(entry, dateStr)
getHabitState(habitId, dateStr) == StateIn(completions, habitId, dateStr)

\* reorderHabits(fromIndex, toIndex): two splices (0-based), then order = index
Splice1(hs, index) ==
    [i \in 1..(Len(hs) - 1) |-> IF i <= index THEN hs[i] ELSE hs[i + 1]]
SpliceIn(hs, index, moved) ==
    [i \in 1..(Len(hs) + 1) |->
        IF i <= index THEN hs[i] ELSE IF i = index + 1 THEN moved ELSE hs[i - 1]]
\* faulty variant: the order fields are not renumbered after the move
reorderHabitsKeepsOrders(hs, fromIndex, toIndex) ==
    SpliceIn(Splice1(hs, fromIndex), toIndex, hs[fromIndex + 1])
reorderHabits(hs, fromIndex, toIndex) ==
    LET spliced == SpliceIn(Splice1(hs, fromIndex), toIndex, hs[fromIndex + 1])
    IN [i \in 1..Len(spliced) |-> [spliced[i] EXCEPT !.order = Num(i - 1)]]

-----------------------------------------------------------------------------
(* Confirmation modal *)

\* #confirmModal.hidden: showConfirm and hideConfirm set it together with confirmCallback
ModalHidden == confirmCallback.kind = "none"

\* faulty variant: a request made while another is pending is dropped
showConfirmKeepsFirst(onConfirm) ==
    IF confirmCallback.kind = "none" THEN onConfirm ELSE confirmCallback

\* showConfirm(title, message, onConfirm): confirmCallback = onConfirm
showConfirm(onConfirm) == onConfirm

\* hideConfirm(): confirmCallback = null
hideConfirm == NoCallback

\* variant: the handler reads the callback as it was before hideConfirm()
CallbackAtClickPending == confirmCallback

\* confirmBtn.onclick: hideConfirm(); if (confirmCallback) confirmCallback();
\* the value of confirmCallback that the `if` reads
CallbackAtClick == hideConfirm

\* habits.filter(h => h.id !== habitId)
RECURSIVE FilterOut(_, _)
FilterOut(hs, habitId) ==
    IF Len(hs) = 0 THEN <<>>
    ELSE IF Head(hs).id = Str(habitId) THEN FilterOut(Tail(hs), habitId)
    ELSE <<Head(hs)>> \o FilterOut(Tail(hs), habitId)

\* the onConfirm closure of deleteHabit
RunDelete(habitId) ==
    /\ habits' = FilterOut(habits, habitId)
    /\ completions' = Delete(completions, habitId)
    /\ writes' = saveCompletions(saveHabits(writes, FilterOut(habits, habitId), "none"),
                                 Delete(completions, habitId), "none")
    /\ rows' = renderHabits(FilterOut(habits, habitId))

\* data.completions || {}
ImportedCompletions(data) ==
    IF Truthy(data.completions) THEN data.completions ELSE Object(EmptyProps)

\* the onConfirm closure of importData, up to its first await
RunImport(data) ==
    /\ habits' = data.habits.items
    /\ completions' = ImportedCompletions(data)
    /\ writes' = saveHabits(writes, data.habits.items, "importHabits")
    /\ rows' = rows

\* click on #confirmOk
ConfirmOk ==
    /\ pc = "ready"
    /\ ~ModalHidden
    /\ confirmCallback' = hideConfirm
    /\ IF CallbackAtClick.kind = "delete" THEN RunDelete(CallbackAtClick.habitId)
       ELSE IF CallbackAtClick.kind = "import" THEN RunImport(CallbackAtClick.data)
       ELSE UNCHANGED <<habits, completions, writes, rows>>
    /\ lastOp' = [Event("confirm") EXCEPT !.callback = confirmCallback]
    /\ UNCHANGED <<guardVars, toggleVars>>
    /\ UNCHANGED <<storage, pc, idClock, fileRead, downloaded, now, dst, viewEndDate, streakShown>>

\* click on #confirmCancel or .modal-backdrop, or Escape inside the modal
ConfirmCancel ==
    /\ pc = "ready"
    /\ ~ModalHidden
    /\ confirmCallback' = hideConfirm
    /\ lastOp' = [Event("cancel") EXCEPT !.callback = confirmCallback]
    /\ UNCHANGED <<guardVars, toggleVars>>
    /\ UNCHANGED <<habits, completions, storage, writes, pc, idClock, rows, fileRead,
                   downloaded, now, dst, viewEndDate, streakShown>>

-----------------------------------------------------------------------------
(* Event listeners of the habit list.  They are registered once loadData   *)
(* has returned; while the modal is shown its backdrop covers the page.    *)

Interactive == pc = "ready" /\ ModalHidden

NameInputs == {<<>>, <<" ">>, <<"a">>, <<" ", "b", " ">>}

\* submit of #addHabitForm, and addHabit(name)
AddHabitSubmit(value) ==
    /\ Interactive
    /\ IF Trim(value) # <<>>
       THEN /\ Len(habits) < MaxListLen
            /\ idClock < Len(IdPool)
            /\ Len(writes) < MaxInFlight
            /\ habits' = Append(habits, NewHabit(value))
            /\ completions' = Put(completions, generateId, Object(EmptyProps))
            /\ idClock' = idClock + 1
            /\ writes' = saveCompletions(saveHabits(writes, Append(habits, NewHabit(value)), "none"),
                                         Put(completions, generateId, Object(EmptyProps)), "none")
            /\ rows' = renderHabits(Append(habits, NewHabit(value)))
            /\ downloaded' = NoFile
       ELSE UNCHANGED <<habits, completions, idClock, writes, rows, downloaded>>
    /\ lastOp' = [Event("add") EXCEPT !.value = value]
    /\ UNCHANGED <<guardVars, toggleVars>>
    /\ UNCHANGED <<storage, pc, confirmCallback, fileRead, now, dst, viewEndDate, streakShown>>

\* click on a .habit-checkbox: toggleCompletion(dataset.habit, dataset.date)
ToggleClick(habitId, dateStr) ==
    /\ Interactive
    /\ Len(writes) < MaxInFlight
    /\ completions' = toggleCompletion(completions, habitId, dateStr)
    /\ writes' = saveCompletions(writes, toggleCompletion(completions, habitId, dateStr), "none")
    /\ rows' = renderHabits(habits)
    /\ downloaded' = NoFile
    /\ lastOp' = [Event("toggle") EXCEPT !.habitId = habitId, !.dateStr = dateStr]
    /\ UNCHANGED <<guardVars, toggleVars>>
    /\ UNCHANGED <<habits, storage, pc, idClock, confirmCallback, fileRead,
                   now, dst, viewEndDate, streakShown>>

\* faulty variant: the habit is removed at the request, before any confirmation
DeleteClickApplies(habitId) ==
    /\ Interactive
    /\ RunDelete(habitId)
    /\ confirmCallback' = showConfirm(DeleteCallback(habitId))
    /\ lastOp' = [Event("delete") EXCEPT !.habitId = habitId]
    /\ UNCHANGED <<guardVars, toggleVars>>
    /\ UNCHANGED <<storage, pc, idClock, fileRead, downloaded, now, dst, viewEndDate, streakShown>>

\* click on a .habit-delete: deleteHabit(dataset.delete)
DeleteClick(habitId) ==
    /\ Interactive
    /\ confirmCallback' =
          IF FindHabit(habits, habitId) = 0 THEN confirmCallback
          ELSE showConfirm(DeleteCallback(habitId))
    /\ lastOp' = [Event("delete") EXCEPT !.habitId = habitId]
    /\ UNCHANGED <<guardVars, toggleVars>>
    /\ UNCHANGED <<habits, completions, storage, writes, pc, idClock, rows, fileRead,
                   downloaded, now, dst, viewEndDate, streakShown>>

\* renameHabit(habitId, newName)
renameHabit(hs, habitId, newName) ==
    LET i == FindHabit(hs, habitId)
    IN IF i = 0 \/ Trim(newName) = <<>> THEN hs
       ELSE [hs EXCEPT ![i].name = Str(Trim(newName))]

\* saveEdit of the inline name input (blur or Enter) on the row of habitId
RenameEdit(habitId, value) ==
    /\ Interactive
    /\ LET i == FindHabit(habits, habitId)
           currentName == habits[i].name.text
           newName == Trim(value)
       IN /\ i # 0
          /\ IF newName # <<>> /\ newName # currentName
             THEN /\ Len(writes) < MaxInFlight
                  /\ habits' = renameHabit(habits, habitId, newName)
                  /\ writes' = saveHabits(writes, renameHabit(habits, habitId, newName), "none")
                  /\ rows' = renderHabits(renameHabit(habits, habitId, newName))
                  /\ downloaded' = NoFile
             ELSE /\ rows' = renderHabits(habits)
                  /\ UNCHANGED <<habits, writes, downloaded>>
    /\ lastOp' = [Event("rename") EXCEPT !.habitId = habitId, !.value = value]
    /\ UNCHANGED <<guardVars, toggleVars>>
    /\ UNCHANGED <<completions, storage, pc, idClock, confirmCallback, fileRead,
                   now, dst, viewEndDate, streakShown>>

\* drop of the row dragged from position fromIndex onto the row at toIndex
Drop(fromIndex, toIndex) ==
    /\ Interactive
    /\ fromIndex # toIndex
    /\ fromIndex < Len(habits) /\ toIndex < Len(habits)
    /\ Len(writes) < MaxInFlight
    /\ habits' = reorderHabits(habits, fromIndex, toIndex)
    /\ writes' = saveHabits(writes, reorderHabits(habits, fromIndex, toIndex), "none")
    /\ rows' = renderHabits(reorderHabits(habits, fromIndex, toIndex))
    /\ downloaded' = NoFile
    /\ lastOp' = Event("reorder")
    /\ UNCHANGED <<guardVars, toggleVars>>
    /\ UNCHANGED <<completions, storage, pc, idClock, confirmCallback, fileRead,
                   now, dst, viewEndDate, streakShown>>

-----------------------------------------------------------------------------
(* Export / import *)

\* the envelope exportData() builds
ExportEnvelope ==
    [version |-> 1, exportedAt |-> now, habits |-> habits, completions |-> completions]

\* click on #exportBtn: exportData() downloads the serialised envelope
ExportClick ==
    /\ Interactive
    /\ downloaded' = JSONstringify(ExportEnvelope)
    /\ lastOp' = Event("export")
    /\ UNCHANGED <<guardVars, toggleVars>>
    /\ UNCHANGED <<habits, completions, storage, writes, pc, idClock, rows, confirmCallback,
                   fileRead, now, dst, viewEndDate, streakShown>>

\* faulty variant: the habits are checked for a name only
ValidImportNoIdCheck(text) ==
    /\ text.kind = "json"
    /\ LET data == JSONparse(text)
       IN /\ ~(~Truthy(data.habits) \/ ~IsArray(data.habits))
          /\ \A i \in 1..Len(data.habits.items) :
                LET habit == data.habits.items[i]
                IN ~(FalsyName(habit.name) \/ habit.name.type # "string")
          /\ ~(Truthy(data.completions) /\ ~TypeofObject(data.completions))

\* the checks of importData between JSON.parse and showConfirm: TRUE when none throws
ValidImport(text) ==
    /\ text.kind = "json"
    /\ LET data == JSONparse(text)
       IN /\ ~(~Truthy(data.habits) \/ ~IsArray(data.habits))
          /\ \A i \in 1..Len(data.habits.items) :
                LET habit == data.habits.items[i]
                IN ~(FalsyId(habit.id) \/ habit.id.type # "string"
                     \/ FalsyName(habit.name) \/ habit.name.type # "string")
          /\ ~(Truthy(data.completions) /\ ~TypeofObject(data.completions))

\* backup files the user may pick besides the one just exported
HabitA == Habit(Str("h1"), Str(<<"a">>), Num(0), 0)
HabitB == Habit(Str("h2"), Str(<<"b">>), Num(1), 0)
DoneToday == Object(formatDate(now) :> "done")
ImportFiles ==
    { GarbageFile,
      JSONFile(Undefined, Undefined),
      JSONFile(StringValue, Undefined),
      JSONFile(Object(EmptyProps), Object(EmptyProps)),
      JSONFile(Array(<<>>), Undefined),
      JSONFile(Array(<<[HabitA EXCEPT !.id = NumberSeven]>>), Object(EmptyProps)),
      JSONFile(Array(<<HabitA, [HabitB EXCEPT !.id = Str("")]>>), Object(EmptyProps)),
      JSONFile(Array(<<[HabitA EXCEPT !.id = MissingId]>>), Object(EmptyProps)),
      JSONFile(Array(<<[HabitA EXCEPT !.name = Str(<<>>)]>>), Object(EmptyProps)),
      JSONFile(Array(<<HabitA>>), StringValue),
      JSONFile(Array(<<HabitA>>), Array(<<>>)),
      JSONFile(Array(<<HabitA>>), Null),
      JSONFile(Array(<<HabitA>>), Object("h1" :> DoneToday)),
      JSONFile(Array(<<HabitA>>), Object("h1" :> Object(formatDate(now) :> "maybe"))),
      JSONFile(Array(<<HabitA>>), Object("h1" :> StringValue)),
      JSONFile(Array(<<HabitB, HabitA>>), Object("h1" :> DoneToday)) }

\* change of #importFile: importData(event) up to `await file.text()`
ImportChange(file) ==
    /\ Interactive
    /\ fileRead = NoFile
    /\ file # NoFile
    /\ fileRead' = file
    /\ lastOp' = Event("importChange")
    /\ UNCHANGED <<guardVars, toggleVars>>
    /\ UNCHANGED <<habits, completions, storage, writes, pc, idClock, rows, confirmCallback,
                   downloaded, now, dst, viewEndDate, streakShown>>

\* file.text() resolves: the rest of importData
ImportRead ==
    /\ pc = "ready"
    /\ fileRead # NoFile
    /\ fileRead' = NoFile
    /\ IF ValidImport(fileRead)
       THEN confirmCallback' = showConfirm(ImportCallback(JSONparse(fileRead)))
       ELSE confirmCallback' = confirmCallback
    /\ lastOp' = [Event("importRead") EXCEPT !.file = fileRead, !.callback = confirmCallback]
    /\ UNCHANGED <<guardVars, toggleVars>>
    /\ UNCHANGED <<habits, completions, storage, writes, pc, idClock, rows, downloaded,
                   now, dst, viewEndDate, streakShown>>

-----------------------------------------------------------------------------
(* chrome.storage.local *)

\* a chrome.storage.local.set call completes; whoever awaited it resumes
WriteDone ==
    /\ Len(writes) > 0
    /\ LET w == Head(writes)
       IN /\ storage' = [storage EXCEPT ![w.key] = w.value]
          /\ CASE w.awaiter = "load" ->
                    \* loadData returns: renderDayHeaders, renderHabits, setupEventListeners
                    /\ pc' = "ready"
                    /\ rows' = renderHabits(habits)
                    /\ writes' = Tail(writes)
               [] w.awaiter = "importHabits" ->
                    \* the import closure resumes: await saveCompletions()
                    /\ writes' = saveCompletions(Tail(writes), completions, "importCompletions")
                    /\ UNCHANGED <<pc, rows>>
               [] w.awaiter = "importCompletions" ->
                    \* the import closure resumes: renderHabits
                    /\ rows' = renderHabits(habits)
                    /\ writes' = Tail(writes)
                    /\ pc' = pc
               [] OTHER ->
                    /\ writes' = Tail(writes)
                    /\ UNCHANGED <<pc, rows>>
    /\ lastOp' = Event("writeDone")
    /\ UNCHANGED guardVars
    /\ ToggleSetup
    /\ UNCHANGED <<habits, completions, idClock, confirmCallback, fileRead, downloaded,
                   now, dst, viewEndDate, streakShown>>

-----------------------------------------------------------------------------
(* The store: what chrome.storage.local holds when the page is opened      *)

NoDst == [day |-> -1, extra |-> 0]
MainNow == DayHours * 20 + 9

FreshStorage == [habits |-> Undefined, completions |-> Undefined]
\* written by the version that kept a plain list of dates per habit
LegacyStorage ==
    [habits |-> Array(<<[HabitA EXCEPT !.order = Num(1)], [HabitB EXCEPT !.order = Num(2)]>>),
     completions |-> Object("h1" :> Array(<<19, 20>>) @@ "h2" :> Object(20 :> "skipped"))]

NoStreak == [current |-> 0, longest |-> 0]

\* habit.html?from=action: the guard returned at once and the tracker stays
OpenedByIcon ==
    /\ fromAction = TRUE
    /\ useAsNewTab = "undefined"
    /\ guardPc = "done"
    /\ location = "tracker"
    /\ ToggleIdle

Init ==
    /\ \/ storage = FreshStorage /\ idClock = 0
       \/ storage = LegacyStorage /\ idClock = 2
    /\ habits = <<>>
    /\ completions = Object(EmptyProps)
    /\ writes = <<>>
    /\ pc = "loading"
    /\ rows = <<>>
    /\ confirmCallback = NoCallback
    /\ fileRead = NoFile
    /\ downloaded = NoFile
    /\ lastOp = Event("init")
    /\ now = MainNow
    /\ dst = NoDst
    /\ viewEndDate = MainNow
    /\ streakShown = NoStreak
    /\ OpenedByIcon

\* the backup files picked in Spec: one that validates, one that does not
MainFiles ==
    { GarbageFile,
      JSONFile(Array(<<HabitA>>), Object("h1" :> Object(formatDate(now) :> "maybe"))) }

Next ==
    \/ LoadData
    \/ \E value \in NameInputs :
          (Trim(value) # <<>> => Len(habits) < MaxHabits) /\ AddHabitSubmit(value)
    \/ \E habitId \in Range(rows) : ToggleClick(habitId, LastColumn)
    \/ \E habitId \in Range(rows) : DeleteClick(habitId)
    \/ \E habitId \in Range(rows), value \in NameInputs : RenameEdit(habitId, value)
    \/ \E fromIndex, toIndex \in 0..(Len(rows) - 1) : Drop(fromIndex, toIndex)
    \/ \E file \in MainFiles : ImportChange(file)
    \/ ImportRead
    \/ ConfirmOk
    \/ ConfirmCancel
    \/ WriteDone

\* The store under every operation of the habit list, the clicks on the last column
Spec == Init /\ [][Next]_vars

NextImport ==
    \/ LoadData
    \/ \E habitId \in Range(rows) : ToggleClick(habitId, LastColumn)
    \/ \E habitId \in Range(rows) : DeleteClick(habitId)
    \/ ExportClick
    \/ \E file \in ImportFiles \cup {downloaded} : ImportChange(file)
    \/ ImportRead
    \/ ConfirmOk
    \/ ConfirmCancel
    \/ WriteDone

\* The import/export codec over every kind of backup file
SpecImport == Init /\ [][NextImport]_vars

NextToggle ==
    \/ LoadData
    \/ \E habitId \in Range(rows), dateStr \in ToggleDates : ToggleClick(habitId, dateStr)
    \/ WriteDone

\* The cells of the most recent columns under any sequence of clicks
SpecToggle == Init /\ [][NextToggle]_vars

\* a backup whose habits are out of order and share an id
ListFiles ==
    { JSONFile(Array(<<[HabitB EXCEPT !.order = Num(3)], HabitA, HabitB>>), Object(EmptyProps)) }

\* one operation at a time: the next one is dispatched once the writes have landed
NextList ==
    \/ LoadData
    \/ writes = <<>> /\ \E value \in NameInputs : AddHabitSubmit(value)
    \/ writes = <<>> /\ \E habitId \in Range(rows), value \in NameInputs : RenameEdit(habitId, value)
    \/ writes = <<>> /\ \E fromIndex, toIndex \in 0..(Len(rows) - 1) : Drop(fromIndex, toIndex)
    \/ writes = <<>> /\ \E habitId \in Range(rows) : DeleteClick(habitId)
    \/ writes = <<>> /\ \E file \in ListFiles : ImportChange(file)
    \/ ImportRead
    \/ ConfirmOk
    \/ ConfirmCancel
    \/ WriteDone

\* The habit list under add, rename, reorder, delete and import
SpecList == Init /\ [][NextList]_vars

\* a chrome.storage.local.set call rejects: the catch of saveHabits / saveCompletions
\* logs and shows the 'Failed to save' toast, and whoever awaited the save resumes
WriteFail ==
    /\ Len(writes) > 0
    /\ LET w == Head(writes)
       IN CASE w.awaiter = "load" ->
                 /\ pc' = "ready"
                 /\ rows' = renderHabits(habits)
                 /\ writes' = Tail(writes)
            [] w.awaiter = "importHabits" ->
                 /\ writes' = saveCompletions(Tail(writes), completions, "importCompletions")
                 /\ UNCHANGED <<pc, rows>>
            [] w.awaiter = "importCompletions" ->
                 /\ rows' = renderHabits(habits)
                 /\ writes' = Tail(writes)
                 /\ pc' = pc
            [] OTHER ->
                 /\ writes' = Tail(writes)
                 /\ UNCHANGED <<pc, rows>>
    /\ lastOp' = Event("writeFail")
    /\ UNCHANGED guardVars
    /\ ToggleSetup
    /\ UNCHANGED <<habits, completions, storage, idClock, confirmCallback, fileRead, downloaded,
                   now, dst, viewEndDate, streakShown>>

\* The mutating operations with storage writes that succeed or fail
NextFail ==
    \/ LoadData
    \/ \E value \in NameInputs :
          (Trim(value) # <<>> => Len(habits) < MaxHabits) /\ AddHabitSubmit(value)
    \/ \E habitId \in Range(rows) : ToggleClick(habitId, LastColumn)
    \/ \E habitId \in Range(rows) : DeleteClick(habitId)
    \/ \E habitId \in Range(rows) : RenameEdit(habitId, <<" ", "b", " ">>)
    \/ \E fromIndex, toIndex \in 0..(Len(rows) - 1) : Drop(fromIndex, toIndex)
    \/ ConfirmOk
    \/ ConfirmCancel
    \/ WriteDone
    \/ WriteFail

SpecFail == Init /\ [][NextFail]_vars

\* the sequence without its element at position i
RemoveAt(seq, i) == SubSeq(seq, 1, i - 1) \o SubSeq(seq, i + 1, Len(seq))

\* click on a .habit-checkbox while the writes of earlier clicks are still in
\* flight: toggleCompletion does not wait for saveCompletions
ToggleClickPending(habitId, dateStr) ==
    /\ Interactive
    /\ Len(writes) < MaxPending
    /\ completions' = toggleCompletion(completions, habitId, dateStr)
    /\ writes' = saveCompletions(writes, toggleCompletion(completions, habitId, dateStr), "none")
    /\ rows' = renderHabits(habits)
    /\ downloaded' = NoFile
    /\ lastOp' = [Event("toggle") EXCEPT !.habitId = habitId, !.dateStr = dateStr]
    /\ UNCHANGED <<guardVars, toggleVars>>
    /\ UNCHANGED <<habits, storage, pc, idClock, confirmCallback, fileRead,
                   now, dst, viewEndDate, streakShown>>

\* the chrome.storage.local.set call issued i-th among those in flight completes
\* before the ones issued earlier; whoever awaited it resumes
WriteDoneAt(i) ==
    /\ i \in 2..Len(writes)
    /\ LET w == writes[i]
       IN /\ storage' = [storage EXCEPT ![w.key] = w.value]
          /\ CASE w.awaiter = "load" ->
                    /\ pc' = "ready"
                    /\ rows' = renderHabits(habits)
                    /\ writes' = RemoveAt(writes, i)
               [] w.awaiter = "importHabits" ->
                    /\ writes' = saveCompletions(RemoveAt(writes, i), completions, "importCompletions")
                    /\ UNCHANGED <<pc, rows>>
               [] w.awaiter = "importCompletions" ->
                    /\ rows' = renderHabits(habits)
                    /\ writes' = RemoveAt(writes, i)
                    /\ pc' = pc
               [] OTHER ->
                    /\ writes' = RemoveAt(writes, i)
                    /\ UNCHANGED <<pc, rows>>
    /\ lastOp' = Event("writeDoneLater")
    /\ UNCHANGED guardVars
    /\ ToggleSetup
    /\ UNCHANGED <<habits, completions, idClock, confirmCallback, fileRead, downloaded,
                   now, dst, viewEndDate, streakShown>>

\* Clicks on the last column and an add, with writes that complete in any order
NextRace ==
    \/ LoadData
    \/ \E value \in NameInputs :
          (Trim(value) # <<>> => Len(habits) < MaxHabits) /\ AddHabitSubmit(value)
    \/ \E habitId \in Range(rows) : ToggleClickPending(habitId, LastColumn)
    \/ WriteDone
    \/ \E i \in 1..Len(writes) : WriteDoneAt(i)

SpecRace == Init /\ [][NextRace]_vars

\* a backup whose completions name a habit that its habit list does not have
OrphanFiles == { JSONFile(Array(<<HabitB>>), Object("h1" :> DoneToday)) }

\* Adds, clicks on the last column, and deletes and imports with their confirmation
NextOrphan ==
    \/ LoadData
    \/ \E value \in NameInputs :
          (Trim(value) # <<>> => Len(habits) < MaxHabits) /\ AddHabitSubmit(value)
    \/ \E habitId \in Range(rows) : ToggleClick(habitId, LastColumn)
    \/ \E habitId \in Range(rows) : DeleteClick(habitId)
    \/ \E file \in OrphanFiles : ImportChange(file)
    \/ ImportRead
    \/ ConfirmOk
    \/ ConfirmCancel
    \/ WriteDone

SpecOrphan == Init /\ [][NextOrphan]_vars

-----------------------------------------------------------------------------
(* Opening the page, and the new-tab guard (newtab-guard.js, background.js) *)

\* !result.useAsNewTab is false
FlagOn(flag) == flag = "true"

\* the tab loads habit.html, with or without ?from=action: a new script context
OpenPage(from) ==
    /\ fromAction' = from
    /\ guardPc' = "start"
    /\ location' = "tracker"
    /\ habits' = <<>>
    /\ completions' = Object(EmptyProps)
    /\ writes' = [i \in 1..Len(writes) |-> [writes[i] EXCEPT !.awaiter = "none"]]
    /\ pc' = "loading"
    /\ rows' = <<>>
    /\ confirmCallback' = NoCallback
    /\ fileRead' = NoFile
    /\ viewEndDate' = now
    /\ streakShown' = NoStreak
    /\ newTabBtn' = FALSE
    /\ flagOps' = Orphaned(flagOps)
    /\ clicks' = 0
    /\ flagAtOpen' = useAsNewTab
    /\ UNCHANGED <<storage, idClock, downloaded, now, dst, useAsNewTab>>

\* chrome.action.onClicked: chrome.tabs.create({ url: 'habit.html?from=action' })
IconClick ==
    /\ OpenPage(TRUE)
    /\ lastOp' = Event("iconClick")

\* the browser opens a new tab on habit.html, without the parameter
NewTab ==
    /\ OpenPage(FALSE)
    /\ lastOp' = Event("newTab")

\* faulty variant: the guard does not look at the 'from' parameter
NewTabGuardIgnoresFrom ==
    /\ location = "tracker"
    /\ guardPc = "start"
    /\ guardPc' = "get"
    /\ lastOp' = Event("guard")
    /\ UNCHANGED <<storeVars, clockVars, viewEndDate, streakShown, fromAction, useAsNewTab, location>>
    /\ UNCHANGED toggleVars

\* the function of newtab-guard.js, up to the call of chrome.storage.local.get
NewTabGuard ==
    /\ location = "tracker"
    /\ guardPc = "start"
    /\ guardPc' = IF fromAction THEN "done" ELSE "get"
    /\ lastOp' = Event("guard")
    /\ UNCHANGED <<storeVars, clockVars, viewEndDate, streakShown, fromAction, useAsNewTab, location>>
    /\ UNCHANGED toggleVars

\* the callback of chrome.storage.local.get('useAsNewTab')
GuardGet ==
    /\ location = "tracker"
    /\ guardPc = "get"
    /\ guardPc' = "done"
    /\ location' = IF FlagOn(useAsNewTab) THEN location ELSE "local-ntp"
    /\ lastOp' = Event("guardGet")
    /\ UNCHANGED <<storeVars, clockVars, viewEndDate, streakShown, fromAction, useAsNewTab>>
    /\ UNCHANGED toggleVars

InitGuard ==
    /\ storage \in {FreshStorage, LegacyStorage}
    /\ idClock = 2
    /\ habits = <<>>
    /\ completions = Object(EmptyProps)
    /\ writes = <<>>
    /\ pc = "loading"
    /\ rows = <<>>
    /\ confirmCallback = NoCallback
    /\ fileRead = NoFile
    /\ downloaded = NoFile
    /\ lastOp = Event("init")
    /\ now = MainNow
    /\ dst = NoDst
    /\ viewEndDate = MainNow
    /\ streakShown = NoStreak
    /\ fromAction \in BOOLEAN
    /\ useAsNewTab \in {"undefined", "false", "true"}
    /\ guardPc = "start"
    /\ location = "tracker"
    /\ newTabBtn = FALSE
    /\ flagOps = <<>>
    /\ clicks = 0
    /\ flagAtOpen = useAsNewTab

\* the scripts of the page run while the tab shows it
NextGuard ==
    \/ IconClick
    \/ NewTab
    \/ NewTabGuard
    \/ GuardGet
    \/ location = "tracker" /\ LoadData
    \/ location = "tracker" /\ \E habitId \in Range(rows) : ToggleClick(habitId, LastColumn)
    \/ WriteDone

\* The page opened by the icon or as a new tab
SpecGuard == InitGuard /\ [][NextGuard]_vars

\* stores left by the version that kept a plain list of dates per habit, in part
\* or throughout, and stores that hold date maps only
AllLegacyStorage ==
    [LegacyStorage EXCEPT !.completions = Object("h1" :> Array(<<19, 20>>) @@ "h2" :> Array(<<>>))]
MigratedStorage ==
    [LegacyStorage EXCEPT !.completions = Object("h1" :> Object(19 :> "done" @@ 20 :> "skipped")
                                                  @@ "h2" :> Object(EmptyProps))]
LoadStores == {FreshStorage, LegacyStorage, AllLegacyStorage, MigratedStorage}

InitLoad ==
    /\ storage \in LoadStores
    /\ idClock = 2
    /\ habits = <<>>
    /\ completions = Object(EmptyProps)
    /\ writes = <<>>
    /\ pc = "loading"
    /\ rows = <<>>
    /\ confirmCallback = NoCallback
    /\ fileRead = NoFile
    /\ downloaded = NoFile
    /\ lastOp = Event("init")
    /\ now = MainNow
    /\ dst = NoDst
    /\ viewEndDate = MainNow
    /\ streakShown = NoStreak
    /\ fromAction = TRUE
    /\ useAsNewTab = "undefined"
    /\ guardPc = "start"
    /\ location = "tracker"
    /\ newTabBtn = FALSE
    /\ flagOps = <<>>
    /\ clicks = 0
    /\ flagAtOpen = useAsNewTab

\* The page opened from the toolbar icon again and again: each time loadData runs
\* on what the store holds by then
NextLoad ==
    \/ IconClick
    \/ NewTabGuard
    \/ LoadData
    \/ \E habitId \in Range(rows) : ToggleClick(habitId, LastColumn)
    \/ WriteDone

SpecLoad == InitLoad /\ [][NextLoad]_vars

\* !result.useAsNewTab, as the boolean that chrome.storage.local.set stores
Inverted(flag) == IF FlagOn(flag) THEN "false" ELSE "true"

\* click on #newTabToggle: chrome.storage.local.get('useAsNewTab', callback)
NewTabToggleClick ==
    /\ Interactive
    /\ location = "tracker"
    /\ clicks < MaxClicks
    /\ clicks' = clicks + 1
    /\ flagOps' = Append(flagOps, FlagGet("click"))
    /\ lastOp' = Event("newTabToggle")
    /\ UNCHANGED <<newTabBtn, flagAtOpen>>
    /\ UNCHANGED <<storeVars, clockVars, viewEndDate, streakShown, guardVars>>

\* the oldest call in flight is a get: its callback runs with the stored flag.
\* The one of setupNewTabToggle updates the button, the one of a click issues
\* the set of the inverted value
FlagGetDone ==
    /\ flagOps # <<>>
    /\ Head(flagOps).kind = "get"
    /\ IF Head(flagOps).from = "setup"
       THEN /\ newTabBtn' = FlagOn(useAsNewTab)
            /\ flagOps' = Tail(flagOps)
       ELSE /\ newTabBtn' = newTabBtn
            /\ flagOps' = Append(Tail(flagOps), FlagSet(Inverted(useAsNewTab)))
    /\ lastOp' = Event("flagGet")
    /\ UNCHANGED <<clicks, flagAtOpen>>
    /\ UNCHANGED <<storeVars, clockVars, viewEndDate, streakShown, guardVars>>

\* the oldest call in flight is a set: the flag is stored and the callback runs
\* updateNewTabButton(btn, newValue)
FlagSetDone ==
    /\ flagOps # <<>>
    /\ Head(flagOps).kind = "set"
    /\ useAsNewTab' = Head(flagOps).value
    /\ newTabBtn' = IF Head(flagOps).notify THEN FlagOn(Head(flagOps).value) ELSE newTabBtn
    /\ flagOps' = Tail(flagOps)
    /\ lastOp' = Event("flagSet")
    /\ UNCHANGED <<clicks, flagAtOpen>>
    /\ UNCHANGED <<storeVars, clockVars, viewEndDate, streakShown, fromAction, guardPc, location>>

InitNewTab ==
    /\ storage \in {FreshStorage, LegacyStorage}
    /\ idClock = 2
    /\ habits = <<>>
    /\ completions = Object(EmptyProps)
    /\ writes = <<>>
    /\ pc = "loading"
    /\ rows = <<>>
    /\ confirmCallback = NoCallback
    /\ fileRead = NoFile
    /\ downloaded = NoFile
    /\ lastOp = Event("init")
    /\ now = MainNow
    /\ dst = NoDst
    /\ viewEndDate = MainNow
    /\ streakShown = NoStreak
    /\ fromAction = TRUE
    /\ useAsNewTab \in {"undefined", "false", "true"}
    /\ guardPc = "done"
    /\ location = "tracker"
    /\ newTabBtn = FALSE
    /\ flagOps = <<>>
    /\ clicks = 0
    /\ flagAtOpen = useAsNewTab

\* The new-tab button of a page opened from the icon, clicked while the calls of
\* earlier clicks are in flight, next to clicks on the cells of the last column
NextNewTab ==
    \/ LoadData
    \/ NewTabToggleClick
    \/ FlagGetDone
    \/ FlagSetDone
    \/ \E habitId \in Range(rows) : ToggleClick(habitId, LastColumn)
    \/ WriteDone

SpecNewTab == InitNewTab /\ [][NextNewTab]_vars

-----------------------------------------------------------------------------
(* Date navigation *)

\* faulty variant: the page forward is not clamped to today
nextWeekEndUnclamped(viewEnd, t) == AddDays(viewEnd, PageDays)

\* the nextWeek listener: viewEndDate + 14 days, or today's midnight when that is later
nextWeekEnd(viewEnd, t) ==
    LET today == Midnight(t)
        proposedEnd == AddDays(viewEnd, PageDays)
    IN IF proposedEnd <= today THEN proposedEnd ELSE today

\* click on #prevWeek
PrevWeek ==
    /\ Interactive
    /\ LocalDay(viewEndDate) >= PageDays
    /\ viewEndDate' = AddDays(viewEndDate, -PageDays)
    /\ lastOp' = Event("prevWeek")
    /\ UNCHANGED <<guardVars, toggleVars>>
    /\ UNCHANGED <<storeVars, clockVars, streakShown>>

\* click on #nextWeek
NextWeek ==
    /\ Interactive
    /\ viewEndDate' = nextWeekEnd(viewEndDate, now)
    /\ lastOp' = Event("nextWeek")
    /\ UNCHANGED <<guardVars, toggleVars>>
    /\ UNCHANGED <<storeVars, clockVars, streakShown>>

\* click on #todayBtn: viewEndDate = new Date()
TodayBtn ==
    /\ Interactive
    /\ viewEndDate' = now
    /\ lastOp' = Event("today")
    /\ UNCHANGED <<guardVars, toggleVars>>
    /\ UNCHANGED <<storeVars, clockVars, streakShown>>

\* half a day passes
Tick ==
    /\ LocalDay(now + DayHours \div 2) <= MaxNavDay
    /\ now' = now + DayHours \div 2
    /\ lastOp' = Event("tick")
    /\ UNCHANGED <<guardVars, toggleVars>>
    /\ UNCHANGED <<storeVars, dst, viewEndDate, streakShown>>

NavStart == DayHours * 30 + 9
NavZones == {NoDst, [day |-> 25, extra |-> 1], [day |-> 25, extra |-> -1]}

InitNav ==
    /\ habits = <<>>
    /\ completions = Object(EmptyProps)
    /\ storage = FreshStorage
    /\ idClock = 0
    /\ writes = <<>>
    /\ pc = "ready"
    /\ rows = <<>>
    /\ confirmCallback = NoCallback
    /\ fileRead = NoFile
    /\ downloaded = NoFile
    /\ lastOp = Event("init")
    /\ now = NavStart
    /\ dst \in NavZones
    /\ viewEndDate = NavStart
    /\ streakShown = NoStreak
    /\ OpenedByIcon

NextNav == PrevWeek \/ NextWeek \/ TodayBtn \/ Tick

SpecNav == InitNav /\ [][NextNav]_vars

-----------------------------------------------------------------------------
(* Streaks *)

\* faulty variant: every tracked date counts, skipped ones too
doneDatesAnyState(habitData) == DOMAIN habitData.props

\* the keys of habitData whose state is 'done'
doneDates(habitData) == {date \in DOMAIN habitData.props : habitData.props[date] = "done"}

\* [...doneDates].sort((a, b) => new Date(b) - new Date(a)): most recent first
RECURSIVE SortDesc(_)
SortDesc(dates) ==
    IF dates = {} THEN <<>>
    ELSE LET latest == CHOOSE d \in dates : \A e \in dates : ParseDateKey(e) <= ParseDateKey(d)
         IN <<latest>> \o SortDesc(dates \ {latest})

\* [...doneDates].sort((a, b) => new Date(a) - new Date(b)): oldest first
RECURSIVE SortAsc(_)
SortAsc(dates) ==
    IF dates = {} THEN <<>>
    ELSE LET earliest == CHOOSE d \in dates : \A e \in dates : ParseDateKey(d) <= ParseDateKey(e)
         IN <<earliest>> \o SortAsc(dates \ {earliest})

\* the loop of the current streak, from index i (1-based) with `current` so far
RECURSIVE CurrentLoop(_, _, _)
CurrentLoop(sortedDates, i, current) ==
    IF i > Len(sortedDates) THEN current
    ELSE LET diffDays == RoundDays(ParseDateKey(sortedDates[i - 1]) - ParseDateKey(sortedDates[i]))
         IN IF diffDays = 1 THEN CurrentLoop(sortedDates, i + 1, current + 1) ELSE current

\* the loop of the longest streak
RECURSIVE LongestLoop(_, _, _, _)
LongestLoop(sortedAsc, i, tempStreak, longest) ==
    IF i > Len(sortedAsc) THEN longest
    ELSE LET diffDays == RoundDays(ParseDateKey(sortedAsc[i]) - ParseDateKey(sortedAsc[i - 1]))
         IN IF diffDays = 1
            THEN LongestLoop(sortedAsc, i + 1, tempStreak + 1,
                             IF tempStreak + 1 > longest THEN tempStreak + 1 ELSE longest)
            ELSE IF diffDays > 1 THEN LongestLoop(sortedAsc, i + 1, 1, longest)
            ELSE LongestLoop(sortedAsc, i + 1, tempStreak, longest)

\* calculateStreak, for the completion record habitData at time t
StreakOf(habitData, t) ==
    LET sortedDates == SortDesc(doneDates(habitData))
        today == formatDate(t)
        yesterday == formatDate(t - DayHours)
    IN IF doneDates(habitData) = {} THEN [current |-> 0, longest |-> 0]
       ELSE [current |-> IF sortedDates[1] = today \/ sortedDates[1] = yesterday
                         THEN CurrentLoop(sortedDates, 2, 1) ELSE 0,
             longest |-> LongestLoop(SortAsc(doneDates(habitData)), 2, 1, 1)]

\* calculateStreak(habitId): completions[habitId] || {}
calculateStreak(habitId) ==
    StreakOf(IF Truthy(Get(completions, habitId)) THEN Get(completions, habitId)
             ELSE Object(EmptyProps), now)

\* renderHabits computes the streak of the habit it draws
RenderStreak ==
    /\ Interactive
    /\ Len(habits) > 0
    /\ lastOp.op # "render"
    /\ streakShown' = calculateStreak(habits[1].id.text)
    /\ lastOp' = Event("render")
    /\ UNCHANGED <<guardVars, toggleVars>>
    /\ UNCHANGED <<storeVars, clockVars, viewEndDate>>

StreakDays == 1..MaxStreakDay

\* the clock at the start, the middle and the last hour of a day up to the day after
StreakNows ==
    UNION {{DayStart(d), DayStart(d) + DayHours \div 2, DayStart(d + 1) - 1} :
              d \in 1..(MaxStreakDay + 1)}

\* no transition, or a 25-hour or a 23-hour day somewhere in the range
StreakZones == {NoDst} \cup {[day |-> d, extra |-> e] : d \in StreakDays, e \in {1, -1}}

InitStreak ==
    /\ habits = <<HabitA>>
    /\ \E tracked \in SUBSET StreakDays :
         \E states \in [tracked -> {"done", "skipped"}] :
            completions = Object("h1" :> Object(states))
    /\ storage = FreshStorage
    /\ idClock = 1
    /\ writes = <<>>
    /\ pc = "ready"
    /\ rows = <<"h1">>
    /\ confirmCallback = NoCallback
    /\ fileRead = NoFile
    /\ downloaded = NoFile
    /\ lastOp = Event("init")
    /\ dst \in StreakZones
    /\ now \in StreakNows
    /\ viewEndDate = now
    /\ streakShown = NoStreak
    /\ OpenedByIcon

NextStreak == RenderStreak

SpecStreak == InitStreak /\ [][NextStreak]_vars

-----------------------------------------------------------------------------
(* reorderHabits over every short habit list *)

ListIds == {"h1", "h2", "h3"}
ListOrders == {0, 1, 5}

InitReorder ==
    /\ \E n \in 0..MaxListLen :
         \E ids \in [1..n -> ListIds], orders \in [1..n -> ListOrders] :
            habits = [i \in 1..n |-> Habit(Str(ids[i]), Str(<<"a">>), Num(orders[i]), 0)]
    /\ completions = Object(EmptyProps)
    /\ storage = FreshStorage
    /\ idClock = Len(IdPool)
    /\ writes = <<>>
    /\ pc = "ready"
    /\ rows = renderHabits(habits)
    /\ confirmCallback = NoCallback
    /\ fileRead = NoFile
    /\ downloaded = NoFile
    /\ lastOp = Event("init")
    /\ now = MainNow
    /\ dst = NoDst
    /\ viewEndDate = MainNow
    /\ streakShown = NoStreak
    /\ OpenedByIcon

NextReorder ==
    \/ \E fromIndex, toIndex \in 0..(Len(rows) - 1) : Drop(fromIndex, toIndex)
    \/ WriteDone

SpecReorder == InitReorder /\ [][NextReorder]_vars

-----------------------------------------------------------------------------
(* Claims *)

\* C1: toggleState is a 3-cycle.  A toggle of an untracked cell makes getState
\* observe done, a toggle of a done cell skipped, and a toggle of a skipped cell
\* untracked with the date key absent from the habit's completion record; so three
\* successive toggles of an untracked cell observe done, skipped, untracked.
C1_ToggleThreeCycle ==
    [][lastOp'.op = "toggle" =>
        LET habitId == lastOp'.habitId
            dateStr == lastOp'.dateStr
            before == getHabitState(habitId, dateStr)
            after == StateIn(completions', habitId, dateStr)
        IN /\ before = "null" => after = "done"
           /\ before = "done" => after = "skipped"
           /\ before = "skipped" =>
                 after = "null" /\ dateStr \notin DOMAIN Get(completions', habitId).props
           /\ before \in {"null", "done", "skipped"}]_vars

\* C1 witness: a toggle has just returned a cell to untracked, its key removed
C1_Witness ==
    /\ lastOp.op = "toggle"
    /\ getHabitState(lastOp.habitId, lastOp.dateStr) = "null"
    /\ lastOp.habitId \in Keys(completions)
    /\ lastOp.dateStr \notin DOMAIN Get(completions, lastOp.habitId).props

\* C2: once the user confirms a pending delete of a habit, the habit list holds no
\* habit with that id, the completion map has no entry for it, and getState is
\* untracked for it on every date.
C2_ConfirmedDeleteRemoves ==
    [][(lastOp'.op = "confirm" /\ confirmCallback.kind = "delete") =>
        LET habitId == confirmCallback.habitId
        IN /\ \A i \in 1..Len(habits') : habits'[i].id # Str(habitId)
           /\ habitId \notin Keys(completions')
           /\ \A dateStr \in ToggleDates : StateIn(completions', habitId, dateStr) = "null"]_vars

\* a rearrangement: some bijection of positions carries hs to rs, order fields aside
SameButOrder(h, r) == h.id = r.id /\ h.name = r.name /\ h.createdAt = r.createdAt
IsPermutation(hs, rs) ==
    /\ Len(hs) = Len(rs)
    /\ \E p \in [1..Len(hs) -> 1..Len(hs)] :
          /\ \A i, j \in 1..Len(hs) : p[i] = p[j] => i = j
          /\ \A i \in 1..Len(hs) : SameButOrder(hs[p[i]], rs[i])

\* C3: for every pair of valid indices, reorder yields a permutation of the habit
\* list, and the habit at list position i has order = i.
C3_ReorderPermutes ==
    \A fromIndex, toIndex \in 0..(Len(habits) - 1) :
        LET reordered == reorderHabits(habits, fromIndex, toIndex)
        IN /\ IsPermutation(habits, reordered)
           /\ \A i \in 1..Len(reordered) : reordered[i].order = Num(i - 1)

\* C3 witness: a drop has reordered a list of three habits
C3_Witness ==
    /\ lastOp.op = "reorder"
    /\ Len(habits) = 3
    /\ habits[1].id # habits[2].id

\* the payloads C4 is about: habits present but not a sequence, or an entry whose
\* id is not a string or is empty
HabitsNotSequence(file) ==
    file.kind = "json" /\ file.habits.type \notin {"undefined", "array"}
SomeBadId(file) ==
    /\ file.kind = "json"
    /\ file.habits.type = "array"
    /\ \E i \in 1..Len(file.habits.items) :
          LET id == file.habits.items[i].id
          IN id.type # "string" \/ id.text = ""

\* C4: an import of such a payload is rejected: no confirmation becomes pending and
\* the habit list, the completion map and both persisted blobs are unchanged.
C4_BadHabitsRejected ==
    [][(lastOp'.op = "importRead" /\ (HabitsNotSequence(fileRead) \/ SomeBadId(fileRead))) =>
        /\ confirmCallback' = confirmCallback
        /\ UNCHANGED <<habits, completions, storage>>]_vars

\* C4 witness: such a payload has been read while habits exist and nothing is pending
C4_Witness ==
    /\ lastOp.op = "importRead"
    /\ SomeBadId(lastOp.file)
    /\ Len(habits) > 0
    /\ confirmCallback = NoCallback

\* C5: an import whose completions field is a sequence or a non-object scalar is
\* rejected, with no pending confirmation and no state change.
C5_BadCompletionsRejected ==
    [][(lastOp'.op = "importRead" /\ fileRead.kind = "json"
            /\ fileRead.completions.type \in {"array", "string"}) =>
        /\ confirmCallback' = confirmCallback
        /\ UNCHANGED <<habits, completions, storage>>]_vars

\* C6: export, then import of the exported text with no edit in between, then
\* confirmation: the import is accepted, what it offers for confirmation is the habit
\* list and completion map that were exported, and after the confirmation the
\* in-memory habit list and completion map are what they were before the export.
C6_ExportImportRoundTrip ==
    [][/\ (lastOp'.op = "importRead" /\ downloaded # NoFile /\ fileRead = downloaded) =>
            /\ confirmCallback'.kind = "import"
            /\ confirmCallback'.data.habits.items = habits
            /\ ImportedCompletions(confirmCallback'.data) = completions
       /\ (lastOp'.op = "confirm" /\ downloaded # NoFile /\ confirmCallback.kind = "import"
              /\ confirmCallback.data = JSONparse(downloaded)) =>
            /\ habits' = habits
            /\ completions' = completions]_vars

\* C6 witness: the import of the backup just exported has been confirmed, with
\* habits and a tracked cell in memory
C6_Witness ==
    /\ lastOp.op = "confirm"
    /\ downloaded # NoFile
    /\ lastOp.callback.kind = "import"
    /\ lastOp.callback.data = JSONparse(downloaded)
    /\ Len(habits) > 0
    /\ \E habitId \in Keys(completions) : DOMAIN completions.props[habitId].props # {}

\* C10: every date key of every habit's completion record maps to done or skipped
\* and to nothing else.
C10_OnlyDoneOrSkipped ==
    \A habitId \in Keys(completions) :
        LET entry == completions.props[habitId]
        IN /\ entry.type = "object"
           /\ \A dateStr \in DOMAIN entry.props : entry.props[dateStr] \in {"done", "skipped"}

\* C10 witness: after a legacy migration, a toggle to skipped and a toggle that cleared
\* a cell, an import of a backup holding another value has been confirmed
C10_Witness ==
    /\ lastOp.op = "confirm"
    /\ lastOp.callback.kind = "import"
    /\ \E habitId \in Keys(lastOp.callback.data.completions) :
          \E dateStr \in DOMAIN lastOp.callback.data.completions.props[habitId].props :
             lastOp.callback.data.completions.props[habitId].props[dateStr] = "maybe"
    /\ Cell(Get(completions, "h1"), formatDate(now) - 1) = "done"
    /\ Cell(Get(completions, "h1"), formatDate(now)) = "skipped"
    /\ "h2" \in Keys(completions)
    /\ DOMAIN Get(completions, "h2").props = {}

\* C7: the calendar date of viewEnd is never later than today, and a pageForward
\* with viewEnd at today leaves viewEnd at today.
C7_WindowNeverPastToday ==
    [][/\ LocalDay(viewEndDate') <= LocalDay(now')
       /\ (lastOp'.op = "nextWeek" /\ LocalDay(viewEndDate) = LocalDay(now)) =>
             LocalDay(viewEndDate') = LocalDay(now')]_vars

\* C7 witness: a pageForward that would have passed today has been clamped to today,
\* on a later day than the page was opened
C7_Witness ==
    /\ lastOp.op = "nextWeek"
    /\ viewEndDate = Midnight(now)
    /\ now # Midnight(now)
    /\ LocalDay(now) > LocalDay(NavStart)

\* the streaks as the claims define them, over the set of done days
AllDone(done, a, b) == \A d \in a..b : d \in done
RunEndingAt(done, last) ==
    CHOOSE k \in 1..last : AllDone(done, last - k + 1, last)
                            /\ (k = last \/ (last - k) \notin done)
LongestRun(done) ==
    IF done = {} THEN 0
    ELSE CHOOSE k \in 1..Cardinality(done) :
            /\ \E last \in done : RunEndingAt(done, last) = k
            /\ \A last \in done : RunEndingAt(done, last) <= k
CurrentRun(done, today) ==
    IF done = {} THEN 0
    ELSE LET last == CHOOSE d \in done : \A e \in done : e <= d
         IN IF last = today \/ last = today - 1 THEN RunEndingAt(done, last) ELSE 0

ShownRecord == Get(completions, habits[1].id.text)

\* C8: calculateStreak returns longest = the longest run of consecutive done days,
\* and current = the run ending at the most recent done day when that day is today
\* or yesterday, and 0 otherwise.
C8_StreakIsRunOfDoneDays ==
    lastOp.op = "render" =>
        streakShown = [current |-> CurrentRun(doneDates(ShownRecord), LocalDay(now)),
                       longest |-> LongestRun(doneDates(ShownRecord))]

\* habitData with the key `date` removed, and with it set to skipped
Untracked(habitData, date) == Delete(habitData, date)
Skipped(habitData, date) == Put(habitData, date, "skipped")
\* habitData restricted to the dates before, and after, `date`
Before(habitData, date) ==
    [habitData EXCEPT !.props = [d \in {e \in DOMAIN habitData.props : e < date} |-> habitData.props[d]]]
After(habitData, date) ==
    [habitData EXCEPT !.props = [d \in {e \in DOMAIN habitData.props : e > date} |-> habitData.props[d]]]
Max(a, b) == IF a > b THEN a ELSE b

\* C9: skipped days break a streak exactly as untracked days do.  Changing a date
\* between skipped and untracked changes neither streak, and the done days on the
\* two sides of a skipped day are never counted in one run.
C9_SkippedBreaksLikeUntracked ==
    lastOp.op = "render" =>
        \A date \in StreakDays :
            Cell(ShownRecord, date) # "done" =>
                /\ StreakOf(Untracked(ShownRecord, date), now) = streakShown
                /\ StreakOf(Skipped(ShownRecord, date), now) = streakShown
                /\ streakShown.longest =
                      Max(StreakOf(Before(ShownRecord, date), now).longest,
                          StreakOf(After(ShownRecord, date), now).longest)
                /\ (\E d \in doneDates(ShownRecord) : d > date) =>
                      streakShown.current = StreakOf(After(ShownRecord, date), now).current

\* C9 witness: a streak was computed with a skipped day between two done days
C9_Witness ==
    /\ lastOp.op = "render"
    /\ \E date \in StreakDays :
          /\ Cell(ShownRecord, date) = "skipped"
          /\ Cell(ShownRecord, date - 1) = "done"
          /\ Cell(ShownRecord, date + 1) = "done"
          /\ formatDate(now) = date + 1
    /\ streakShown = [current |-> 1, longest |-> 1]

\* C11: destructive operations are two-phase.  A delete or import request changes
\* neither the habit list and completion map nor the persisted blobs and issues no
\* write; while the request is pending nothing but a confirmation touches the habit
\* list and the completion map; and a cancellation (cancel button, backdrop, Escape)
\* leaves all of them as they were and clears the pending action.
C11_TwoPhaseDestructive ==
    [][/\ lastOp'.op \in {"delete", "importChange", "importRead"} =>
             UNCHANGED <<habits, completions, storage, writes>>
       /\ (~ModalHidden /\ lastOp'.op # "confirm") => UNCHANGED <<habits, completions>>
       /\ lastOp'.op = "cancel" =>
             /\ UNCHANGED <<habits, completions, storage, writes>>
             /\ confirmCallback' = NoCallback]_vars

\* C11 witness: a pending delete of a habit with a tracked cell has been cancelled and
\* the habit and its record are still there
C11_Witness ==
    /\ lastOp.op = "cancel"
    /\ lastOp.callback.kind = "delete"
    /\ confirmCallback = NoCallback
    /\ FindHabit(habits, lastOp.callback.habitId) # 0
    /\ DOMAIN Get(completions, lastOp.callback.habitId).props # {}

\* C12: when a validated import is confirmed, the habit list becomes the envelope's
\* habits, the completion map the envelope's completions (empty if absent), and the
\* persistence of the blobs is started.
C12_ConfirmedImportReplaces ==
    [][(lastOp'.op = "confirm" /\ confirmCallback.kind = "import") =>
          /\ habits' = confirmCallback.data.habits.items
          /\ completions' = ImportedCompletions(confirmCallback.data)
          /\ writes' # writes]_vars

\* C13: a page opened by the extension icon (the 'from' marker present) is shown
\* whatever useAsNewTab is; a page opened without the marker is shown if useAsNewTab is
\* true and has been redirected to the default new-tab page, once the guard has run,
\* if the flag is false or absent.
C13_GuardShowsOrRedirects ==
    /\ fromAction => location = "tracker"
    /\ (~fromAction /\ useAsNewTab = "true") => location = "tracker"
    /\ (~fromAction /\ useAsNewTab # "true" /\ guardPc = "done") => location = "local-ntp"
    /\ guardPc # "done" => location = "tracker"

\* C13 witness: a tab opened without the marker was redirected, the flag absent, on a
\* profile whose store holds habits
C13_Witness ==
    /\ lastOp.op = "guardGet"
    /\ ~fromAction
    /\ useAsNewTab = "undefined"
    /\ location = "local-ntp"
    /\ storage = LegacyStorage

\* the list with the element at position `from` moved to position `to` (0-based)
Move(list, from, to) == SpliceIn(Splice1(list, from), to, list[from + 1])

\* C14: the stored position of every habit agrees with its position in the list
\* sorted by order, the rows shown are that list, and a reorder called with two shown
\* positions moves the row shown at fromIndex to toIndex and keeps the relative
\* order of the other rows.
C14_ReorderMovesShownRow ==
    pc = "ready" =>
        /\ \A i \in 1..Len(habits) : sortedHabits(habits)[i] = habits[i]
        /\ rows = renderHabits(habits)
        /\ \A fromIndex, toIndex \in 0..(Len(rows) - 1) :
              renderHabits(reorderHabits(habits, fromIndex, toIndex)) = Move(rows, fromIndex, toIndex)

\* C14 witness: on the loaded store a habit was added and dragged to the first row
C14_Witness ==
    /\ lastOp.op = "reorder"
    /\ Len(habits) = 3
    /\ rows = <<"h3", "h1", "h2">>

\* C15: no two habits of the habit list have the same id.
C15_UniqueIds ==
    \A i, j \in 1..Len(habits) : habits[i].id = habits[j].id => i = j

\* C15 witness: after two adds, the import of a backup that repeats an id has been
\* confirmed
C15_Witness ==
    /\ lastOp.op = "confirm"
    /\ lastOp.callback.kind = "import"
    /\ \E i, j \in 1..Len(lastOp.callback.data.habits.items) :
          /\ i # j
          /\ lastOp.callback.data.habits.items[i].id = lastOp.callback.data.habits.items[j].id
    /\ Len(habits) = 3
    /\ storage.habits = Undefined \/ Len(storage.habits.items) = 3

\* the maximum order among the habits, 0 when there is none
MaxOrderOf(hs) ==
    LET orders == {OrderOf(hs[i]) : i \in 1..Len(hs)} \cup {0}
    IN CHOOSE m \in orders : \A o \in orders : o <= m

\* C16: add with a non-empty trimmed name appends exactly one habit whose order is
\* the maximum order among the existing habits + 1, creates an empty completion
\* record for its id, leaves every existing habit and completion record unchanged,
\* and the new habit sorts after all existing habits.
C16_AddAppendsLast ==
    [][(lastOp'.op = "add" /\ Trim(lastOp'.value) # <<>>) =>
          LET added == habits'[Len(habits')]
          IN /\ Len(habits') = Len(habits) + 1
             /\ SubSeq(habits', 1, Len(habits)) = habits
             /\ added.order = Num(MaxOrderOf(habits) + 1)
             /\ added.name = Str(Trim(lastOp'.value))
             /\ \A i \in 1..Len(habits) : habits[i].id # added.id
             /\ Keys(completions') = Keys(completions) \cup {added.id.text}
             /\ added.id.text \notin Keys(completions)
             /\ Get(completions', added.id.text) = Object(EmptyProps)
             /\ \A habitId \in Keys(completions) :
                   Get(completions', habitId) = Get(completions, habitId)
             /\ sortedHabits(habits')[Len(habits')] = added
             /\ rows'[Len(rows')] = added.id.text]_vars

\* C16 witness: a habit was added to two reordered habits and has order 2
C16_Witness ==
    /\ lastOp.op = "add"
    /\ Trim(lastOp.value) # <<>>
    /\ Len(habits) = 3
    /\ habits[1].id = Str("h2")
    /\ habits[3].order = Num(2)

\* an id no habit has
MissingHabit == "h0"

\* value consists of white space only
IsBlank(value) == \A i \in 1..Len(value) : value[i] = " "

\* name is value without its leading and trailing white space
IsTrimmed(name, value) ==
    /\ name # <<>>
    /\ name[1] # " "
    /\ name[Len(name)] # " "
    /\ \E k \in 0..(Len(value) - Len(name)) :
          /\ SubSeq(value, k + 1, k + Len(name)) = name
          /\ IsBlank(SubSeq(value, 1, k))
          /\ IsBlank(SubSeq(value, k + Len(name) + 1, Len(value)))

\* C17: add and rename with a name that is empty once trimmed change neither the
\* habit list nor the completion map, and neither does a rename of an id that is not
\* found; any other rename sets the name of that habit to the trimmed value and
\* leaves its id and order, every other habit and the completion map unchanged.
C17_BlankNamesIgnored ==
    [][/\ (lastOp'.op = "add" /\ IsBlank(lastOp'.value)) =>
             UNCHANGED <<habits, completions, storage, writes>>
       /\ lastOp'.op = "rename" =>
             /\ completions' = completions
             /\ IF IsBlank(lastOp'.value)
                THEN UNCHANGED <<habits, storage, writes>>
                ELSE LET i == FindHabit(habits, lastOp'.habitId)
                     IN /\ i # 0
                        /\ habits'[i].name.type = "string"
                        /\ IsTrimmed(habits'[i].name.text, lastOp'.value)
                        /\ habits' = [habits EXCEPT ![i].name = habits'[i].name]
       /\ \A value \in NameInputs :
             /\ renameHabit(habits, MissingHabit, value) = habits
             /\ \A i \in 1..Len(habits) :
                   IsBlank(value) => renameHabit(habits, habits[i].id.text, value) = habits]_vars

\* C17 witness: a rename to a blank name was ignored, after a rename that took effect
C17_Witness ==
    /\ lastOp.op = "rename"
    /\ lastOp.value = <<" ">>
    /\ Len(habits) >= 2
    /\ habits[FindHabit(habits, lastOp.habitId)].name = Str(<<"b">>)
    /\ habits[FindHabit(habits, lastOp.habitId)].id = Str("h1")

\* C18: every mutating operation (add, confirmed delete, rename, toggle, reorder)
\* has changed the in-memory state by the time its write is issued, so the write
\* carries the new state; a failed write changes neither the habit list nor the
\* completion map, and the page accepts operations after it as before.
C18_MutationSurvivesFailedWrite ==
    [][/\ lastOp'.op \in {"add", "rename", "toggle", "reorder", "confirm"} =>
             /\ Len(writes') >= Len(writes)
             /\ \A i \in (Len(writes) + 1)..Len(writes') :
                   /\ writes'[i].key = "habits" => writes'[i].value = Array(habits')
                   /\ writes'[i].key = "completions" =>
                         writes'[i].value = CompletionsToJSON(completions')
             /\ habits' # habits =>
                   \E i \in (Len(writes) + 1)..Len(writes') : writes'[i].key = "habits"
             /\ completions' # completions =>
                   \E i \in (Len(writes) + 1)..Len(writes') : writes'[i].key = "completions"
       /\ (lastOp'.op = "confirm" /\ confirmCallback.kind = "delete") =>
             /\ FindHabit(habits', confirmCallback.habitId) = 0
             /\ confirmCallback.habitId \notin Keys(completions')
             /\ Len(writes') = Len(writes) + 2
       /\ lastOp'.op = "writeFail" =>
             /\ UNCHANGED <<habits, completions, storage>>
             /\ Interactive => Interactive']_vars

\* C19: once no write is in flight and the page is ready, the persisted habits
\* blob equals the in-memory habit list and the persisted completions blob equals
\* the in-memory completion map (an absent blob counting as the empty value).
C19_StorageCatchesUp ==
    (pc = "ready" /\ writes = <<>>) =>
        /\ LoadedHabits = habits
        /\ LoadedCompletions = CompletionsToJSON(completions)

\* the completions blob in the store has an entry that is a plain list of dates
StoredLegacy ==
    /\ storage.completions.type = "object"
    /\ \E habitId \in DOMAIN storage.completions.props :
          storage.completions.props[habitId].type = "array"

\* C20: a load turns every stored entry that is a plain list of dates into a date
\* map with each listed date done and keeps every entry that is a date map as it
\* is; it issues a completions write, carrying the converted map, exactly when it
\* converted at least one entry; and a store without list entries never gets one
\* again, so a load of the persisted result converts nothing and issues no write.
C20_MigratesOnce ==
    [][/\ lastOp'.op = "load" =>
             /\ IF storage.completions.type = "object"
                THEN /\ DOMAIN completions'.props = DOMAIN storage.completions.props
                     /\ \A habitId \in DOMAIN storage.completions.props :
                           LET stored == storage.completions.props[habitId]
                               loaded == completions'.props[habitId]
                           IN IF stored.type = "array"
                              THEN /\ loaded.type = "object"
                                   /\ DOMAIN loaded.props = {stored.items[i] : i \in 1..Len(stored.items)}
                                   /\ \A date \in DOMAIN loaded.props : loaded.props[date] = "done"
                              ELSE loaded = stored
                ELSE completions' = Object(EmptyProps)
             /\ IF StoredLegacy
                THEN /\ writes' = Append(writes, Write("completions", completions', "load"))
                     /\ pc' = "migrating"
                ELSE /\ writes' = writes
                     /\ pc' = "ready"
       /\ ~StoredLegacy => ~StoredLegacy'
       /\ (lastOp'.op = "writeDone" /\ pc = "migrating") => ~StoredLegacy']_vars

\* C20 witness: the page was opened again after the migration write had landed, and
\* this load has issued no write
C20_Witness ==
    /\ lastOp.op = "load"
    /\ pc = "ready"
    /\ writes = <<>>
    /\ storage \notin LoadStores
    /\ storage.completions = Object("h1" :> Object(19 :> "done" @@ 20 :> "done") @@ "h2" :> Object(EmptyProps))
    /\ completions = storage.completions

\* C21: every key of the completion map is the id of a habit of the habit list.
C21_NoOrphanRecords ==
    \A habitId \in Keys(completions) : FindHabit(habits, habitId) # 0

\* C21 witness: after an add and a click on a cell, the import of a backup whose
\* completions name a habit it does not list has been confirmed
C21_Witness ==
    /\ lastOp.op = "confirm"
    /\ lastOp.callback.kind = "import"
    /\ \E habitId \in Keys(lastOp.callback.data.completions) :
          FindHabit(lastOp.callback.data.habits.items, habitId) = 0
    /\ idClock = 1
    /\ Len(habits) = 1
    /\ Keys(completions) = {habits[1].id.text}
    /\ DOMAIN Get(completions, habits[1].id.text).props # {}

\* C22: one destructive action at most is pending, and it is the one requested
\* last: a delete request or an accepted import replaces whatever was pending; a
\* confirmation applies nothing or exactly the action pending at the click and
\* leaves none pending; a cancellation applies nothing and leaves none pending;
\* no other step removes a habit or a completion record.
C22_OnlyLatestPendingApplied ==
    [][/\ confirmCallback'.kind \in {"none", "delete", "import"}
       /\ (lastOp'.op = "delete" /\ FindHabit(habits, lastOp'.habitId) # 0) =>
             confirmCallback' = DeleteCallback(lastOp'.habitId)
       /\ (lastOp'.op = "importRead" /\ ValidImport(lastOp'.file)) =>
             confirmCallback' = ImportCallback(JSONparse(lastOp'.file))
       /\ lastOp'.op = "confirm" =>
             /\ confirmCallback' = NoCallback
             /\ \/ UNCHANGED <<habits, completions, writes>>
                \/ /\ confirmCallback.kind = "delete"
                   /\ habits' = FilterOut(habits, confirmCallback.habitId)
                   /\ completions' = Delete(completions, confirmCallback.habitId)
                \/ /\ confirmCallback.kind = "import"
                   /\ habits' = confirmCallback.data.habits.items
                   /\ completions' = ImportedCompletions(confirmCallback.data)
       /\ lastOp'.op = "cancel" =>
             /\ confirmCallback' = NoCallback
             /\ UNCHANGED <<habits, completions, writes>>
       /\ lastOp'.op # "confirm" =>
             /\ \A i \in 1..Len(habits) : \E j \in 1..Len(habits') : habits'[j].id = habits[i].id
             /\ Keys(completions) \subseteq Keys(completions')]_vars

\* C22 witness: a delete was requested while the file read of an import was in
\* flight, and the dialog of the import has replaced the one of the delete
C22_Witness ==
    /\ lastOp.op = "importRead"
    /\ lastOp.callback.kind = "delete"
    /\ FindHabit(habits, lastOp.callback.habitId) # 0
    /\ confirmCallback.kind = "import"
    /\ confirmCallback.data = JSONparse(lastOp.file)

\* flag inverted n times: the flag itself for n = 0, else the boolean stored by the
\* n-th inversion
InvertedTimes(flag, n) ==
    IF n = 0 THEN flag
    ELSE IF n % 2 = 1 THEN Inverted(flag) ELSE Inverted(Inverted(flag))

\* the button is active exactly when the stored flag is true
ButtonShowsStoredFlag == newTabBtn = FlagOn(useAsNewTab)

\* C23: once the page is set up and no call on useAsNewTab is in flight, the
\* stored flag is the flag the page was opened with, inverted once per click on
\* the new-tab button, and the button is active exactly when the flag is true.
C23_ToggleInvertsPerClick ==
    (pc = "ready" /\ flagOps = <<>>) =>
        /\ useAsNewTab = InvertedTimes(flagAtOpen, clicks)
        /\ ButtonShowsStoredFlag

=============================================================================
